---- MODULE Spec2Model ----
(***************************************************************************)
(* Model of the brute-force Sudoku solver of sudoku-tool                   *)
(* (src/sudoku-tool/src/core/solvers/bf_solver.rs and core/sudoku.rs).     *)
(*                                                                         *)
(* The recursion of solve_recursive_cell_order is modelled with an         *)
(* explicit call stack; one action is one step of the topmost call.        *)
(* The grid is the program's 9x9 grid with its 3x3 boxes; the model is     *)
(* bounded through the start boards and the cell orders the caller may     *)
(* supply and the outcomes a shuffle may have.                             *)
(***************************************************************************)
EXTENDS Integers, Sequences, FiniteSets, TLC

\* ------------------------------------------------------------------------
\* Bounds of the model (not program constants)
\* ------------------------------------------------------------------------

\* Largest number of empty cells a start board of the model may have.
MaxEmpty == 4


\* ------------------------------------------------------------------------
\* Program constants
\* ------------------------------------------------------------------------

\* Side of the grid: [[0u8; 9]; 9], [0u16; 9].
N == 9

\* Side of a box: (i / 3) * 3 + j / 3.
BoxSide == 3

\* Number of cells, the bound of the scan `while current_idx < 81`.
NumCells == 81

\* Width of a mask word (u16): !bit is taken modulo 2^16.
MaskModulus == 65536

\* The seed of the experiment's usage example (--seed 12345).
ExampleSeed == 12345

Idx == 0 .. (N - 1)

Digits == 1 .. N

Cell == Idx \X Idx

\* Option<T>: None is the empty sequence, Some(v) the one-element sequence.
None == <<>>

Some(v) == <<v>>

Unwrap(o) == o[1]

\* ------------------------------------------------------------------------
\* u16 bit operations used on the masks
\* ------------------------------------------------------------------------

RECURSIVE Pow2(_)
Pow2(n) == IF n = 0 THEN 1 ELSE 2 * Pow2(n - 1)

\* The shift by num - 1 (digit 1 on bit 0).
Shl1FromBitZero(num) == Pow2(num - 1) % MaskModulus

\* 1 << num on a u16
Shl1(num) == Pow2(num) % MaskModulus

RECURSIVE BitAnd(_, _)
BitAnd(a, b) ==
    IF a = 0 \/ b = 0 THEN 0
    ELSE (a % 2) * (b % 2) + 2 * BitAnd(a \div 2, b \div 2)

RECURSIVE BitOr(_, _)
BitOr(a, b) ==
    IF a = 0 THEN b
    ELSE IF b = 0 THEN a
    ELSE (IF a % 2 = 1 \/ b % 2 = 1 THEN 1 ELSE 0) + 2 * BitOr(a \div 2, b \div 2)

\* !bit on a u16
BitNot(a) == (MaskModulus - 1) - a

\* (i / 3) * 3 + j / 3
SubgridIndex(i, j) == (i \div BoxSide) * BoxSide + (j \div BoxSide)

\* ------------------------------------------------------------------------
\* Sudoku (core/sudoku.rs): a 9x9 grid of candidate sets
\* ------------------------------------------------------------------------

\* Sudoku::new(): every cell holds the empty set.
SudokuNew == [r \in Idx |-> [c \in Idx |-> {}]]

\* Sudoku::from_preset: Some(v) becomes {v}, None becomes {1..9}.
from_preset(preset) ==
    [r \in Idx |-> [c \in Idx |->
        IF preset[r][c] = None THEN Digits ELSE {Unwrap(preset[r][c])}]]

\* Sudoku::get_solved_value: Some(v) iff the candidate set has one element.
get_solved_value(grid, row, col) ==
    IF Cardinality(grid[row][col]) = 1
    THEN Some(CHOOSE v \in grid[row][col] : TRUE)
    ELSE None

\* The range test with value 0 let through.
set_cell_ok_from_zero(row, col, value) ==
    /\ row < N
    /\ col < N
    /\ value >= 0
    /\ value <= 9

\* Sudoku::set_cell: Err for a position or value out of range, else the
\* cell's candidate set becomes {value}.
set_cell_ok(row, col, value) ==
    /\ row < N
    /\ col < N
    /\ value >= 1
    /\ value <= 9

set_cell(grid, row, col, value) ==
    IF set_cell_ok(row, col, value)
    THEN [grid EXCEPT ![row][col] = {value}]
    ELSE grid

\* Sudoku::check_unit over the candidate sets of one unit: every cell
\* solved, no digit twice, all of 1..9 present.
check_unit(unit) ==
    /\ \A k \in DOMAIN unit : Cardinality(unit[k]) = 1
    /\ \A k1, k2 \in DOMAIN unit : k1 # k2 => unit[k1] # unit[k2]
    /\ \A d \in Digits : \E k \in DOMAIN unit : unit[k] = {d}

\* Sudoku::is_solved: all rows, all columns, all subgrids pass check_unit.
is_solved(grid) ==
    /\ \A r \in Idx : check_unit([c \in Idx |-> grid[r][c]])
    /\ \A c \in Idx : check_unit([r \in Idx |-> grid[r][c]])
    /\ \A bi, bj \in 0 .. (BoxSide - 1) :
          check_unit([k \in 0 .. (BoxSide * BoxSide - 1) |->
              grid[bi * BoxSide + (k \div BoxSide)][bj * BoxSide + (k % BoxSide)]])

\* ------------------------------------------------------------------------
\* Inputs of the model
\* ------------------------------------------------------------------------

\* The solved grid of test_solve_already_solved_puzzle.
SolvedGrid ==
    << <<5, 3, 4, 6, 7, 8, 9, 1, 2>>,
       <<6, 7, 2, 1, 9, 5, 3, 4, 8>>,
       <<1, 9, 8, 3, 4, 2, 5, 6, 7>>,
       <<8, 5, 9, 7, 6, 1, 4, 2, 3>>,
       <<4, 2, 6, 8, 5, 3, 7, 9, 1>>,
       <<7, 1, 3, 9, 2, 4, 8, 5, 6>>,
       <<9, 6, 1, 5, 3, 7, 2, 8, 4>>,
       <<2, 8, 7, 4, 1, 9, 6, 3, 5>>,
       <<3, 4, 5, 2, 8, 6, 1, 7, 9>> >>

Solved == [r \in Idx |-> [c \in Idx |-> SolvedGrid[r + 1][c + 1]]]

\* Cells (0,3) (0,4) (3,3) (3,4) hold 6 7 / 7 6 in the solved grid: emptied
\* together they admit two completions.  The start boards of the model
\* differ from the solved grid on these four cells and on (8,8) only.
Rectangle == {<<0, 3>>, <<0, 4>>, <<3, 3>>, <<3, 4>>}

RectangleDigits == {6, 7}

Corner == <<8, 8>>

Region == Rectangle \cup {Corner}

\* A clue of the rectangle may be absent, or either rectangle digit (which
\* lets a start board carry duplicate clues or have no completion); the
\* corner is absent or as solved.
RectangleChoices == {None} \cup {Some(d) : d \in RectangleDigits}

CornerChoices == {None, Some(Solved[Corner[1]][Corner[2]])}

\* The [[Option<u8>; 9]; 9] presets of the model.
Presets ==
    { [r \in Idx |-> [c \in Idx |->
          IF <<r, c>> \in Rectangle THEN p[1][<<r, c>>]
          ELSE IF <<r, c>> = Corner THEN p[2]
          ELSE Some(Solved[r][c])]] :
      p \in { q \in [Rectangle -> RectangleChoices] \X CornerChoices :
                Cardinality({cell \in Rectangle : q[1][cell] = None})
                    + (IF q[2] = None THEN 1 ELSE 0) <= MaxEmpty } }

\* Vec / array values are sequences; At reads them with the program's
\* 0-based index.
At(s, k) == s[k + 1]

Identity9 == [k \in 1 .. N |-> k - 1]

Reverse(s) == [k \in 1 .. Len(s) |-> s[Len(s) + 1 - k]]

\* SliceRandom::shuffle with rand::rng(): the result is some permutation of
\* the slice, whatever the caller's seed.  The random source is outside the
\* program; the model explores two outcomes, the slice as it is and
\* reversed.
ShuffleOutcomes(s) == {s, Reverse(s)}

\* The nested loops pushing (r, r) instead of (r, c).
generate_cell_order_row_twice(row_order, col_order) ==
    [k \in 1 .. (Len(row_order) * Len(col_order)) |->
        << row_order[((k - 1) \div Len(col_order)) + 1],
           row_order[((k - 1) \div Len(col_order)) + 1] >>]

\* The nested loops with the column loop outside: index 9*a + b holds
\* (row_order[b], col_order[a]).
generate_cell_order_col_outer(row_order, col_order) ==
    [k \in 1 .. (Len(row_order) * Len(col_order)) |->
        << row_order[((k - 1) % Len(row_order)) + 1],
           col_order[((k - 1) \div Len(row_order)) + 1] >>]

\* generate_cell_order_from_row_col: for &r in row_order, for &c in
\* col_order, push (r, c).
generate_cell_order_from_row_col(row_order, col_order) ==
    [k \in 1 .. (Len(row_order) * Len(col_order)) |->
        << row_order[((k - 1) \div Len(col_order)) + 1],
           col_order[((k - 1) % Len(col_order)) + 1] >>]

RowMajor == generate_cell_order_from_row_col(Identity9, Identity9)

\* All cells, column by column.
ColumnMajor == [k \in 1 .. NumCells |-> << (k - 1) % N, (k - 1) \div N >>]

\* Arrays and cell sequences a caller supplies with the explicit variants:
\* permutations, and malformed ones (a repeated row; a sequence in which
\* (0,3) is replaced by a second (8,8); a sequence one cell short).
RepeatedRow == [Identity9 EXCEPT ![1] = 3]

RepeatedCell == [RowMajor EXCEPT ![4] = Corner]

OneShort == SubSeq(RowMajor, 1, NumCells - 1)

CustomRowColInputs ==
    { <<Identity9, Reverse(Identity9)>>,
      <<Reverse(Identity9), Identity9>>,
      <<RepeatedRow, Identity9>> }

CustomCellInputs == {ColumnMajor, RepeatedCell, OneShort}

\* enum SearchStrategy
Strategies ==
    { [tag |-> "Default"], [tag |-> "RowColRandom"], [tag |-> "CellRandom"] }
      \cup { [tag |-> "CustomRowCol", row_order |-> p[1], col_order |-> p[2]] :
               p \in CustomRowColInputs }
      \cup { [tag |-> "CustomCell", cell_order |-> s] : s \in CustomCellInputs }

\* The cell orders the match on the strategy can produce
\* (find_one_solution_strategy, "Generate cell order based on strategy").
CellOrders(st) ==
    CASE st.tag = "Default" ->
            {generate_cell_order_from_row_col(Identity9, Identity9)}
      [] st.tag = "RowColRandom" ->
            { generate_cell_order_from_row_col(row_arr, col_arr) :
                row_arr \in ShuffleOutcomes(Identity9),
                col_arr \in ShuffleOutcomes(Identity9) }
      [] st.tag = "CellRandom" -> ShuffleOutcomes(RowMajor)
      [] st.tag = "CustomRowCol" ->
            {generate_cell_order_from_row_col(st.row_order, st.col_order)}
      [] st.tag = "CustomCell" -> {st.cell_order}

\* ------------------------------------------------------------------------
\* SolverStats and the solver's state
\* ------------------------------------------------------------------------

VARIABLES
    pc,          \* "idle", "searching", "returned" or "panicked"
    sudoku,      \* the caller's puzzle (&Sudoku), read-only
    strategy,    \* the SearchStrategy passed by the caller
    find_all,    \* the find_all flag of the recursion
    seed,        \* the caller's reproducibility seed (Option<u64>)
    cell_order,  \* the generated cell order
    board,       \* [[u8; 9]; 9]
    rows,        \* [u16; 9]
    cols,        \* [u16; 9]
    subgrids,    \* [u16; 9]
    stats,       \* SolverStats (search_duration left out)
    solutions,   \* Vec<Sudoku>
    stack,       \* the active calls of solve_recursive_cell_order
    solution,    \* the Option<Sudoku> find_one_solution_strategy returns
    prev         \* outcome of the caller's previous invocation, if any

vars ==
    << pc, sudoku, strategy, find_all, seed, cell_order, board, rows, cols,
       subgrids, stats, solutions, stack, solution, prev >>

Depths == 0 .. (NumCells - 1)

\* SolverStats::default()
SolverStatsDefault ==
    [ solutions_found |-> 0,
      max_recursion_depth |-> 0,
      nodes_explored |-> 0,
      backtracks |-> 0,
      leaves |-> 0,
      tree_width_by_level |-> [d \in Depths |-> 0] ]

\* f[lo] + ... + f[hi], by halves
RECURSIVE SumRange(_, _, _)
SumRange(f, lo, hi) ==
    IF lo > hi THEN 0
    ELSE IF lo = hi THEN f[lo]
    ELSE SumRange(f, lo, (lo + hi) \div 2)
            + SumRange(f, ((lo + hi) \div 2) + 1, hi)

\* SolverStats::total_nodes_from_tree: tree_width_by_level.iter().sum()
total_nodes_from_tree(st) == SumRange(st.tree_width_by_level, 0, NumCells - 1)

\* SolverStats::is_tree_data_consistent
is_tree_data_consistent(st) == total_nodes_from_tree(st) = st.nodes_explored

Max(a, b) == IF a >= b THEN a ELSE b

\* ------------------------------------------------------------------------
\* initialize_from_sudoku and is_safe
\* ------------------------------------------------------------------------

\* 1 << value for a solved cell, 0 (nothing to OR in) for any other.
ClueBit(grid, i, j) ==
    IF get_solved_value(grid, i, j) = None
    THEN 0
    ELSE Shl1(Unwrap(get_solved_value(grid, i, j)))

\* mask |= bit over the cells at(0), .., at(k - 1), in that order.
RECURSIVE OrClues(_, _, _)
OrClues(grid, at, k) ==
    IF k = 0 THEN 0
    ELSE BitOr(OrClues(grid, at, k - 1), ClueBit(grid, at[k - 1][1], at[k - 1][2]))

\* initialize_from_sudoku: after the loops over every (i, j), board[i][j]
\* is the value of each solved cell (0 elsewhere) and rows[i], cols[j] and
\* subgrids[(i / 3) * 3 + j / 3] have 1 << value OR-ed in for each.
initialize_from_sudoku(grid) ==
    [ board |->
        [i \in Idx |-> [j \in Idx |->
            IF get_solved_value(grid, i, j) = None
            THEN 0
            ELSE Unwrap(get_solved_value(grid, i, j))]],
      rows |->
        [i \in Idx |-> LET at == [k \in Idx |-> <<i, k>>] IN OrClues(grid, at, N)],
      cols |->
        [j \in Idx |-> LET at == [k \in Idx |-> <<k, j>>] IN OrClues(grid, at, N)],
      subgrids |->
        [b \in Idx |->
            LET at == [k \in Idx |->
                        << (b \div BoxSide) * BoxSide + (k \div BoxSide),
                           (b % BoxSide) * BoxSide + (k % BoxSide) >>]
            IN  OrClues(grid, at, N)] ]

\* is_safe without the test of the row mask.
is_safe_without_row(rs, cs, sgs, i, j, num) ==
    LET bit == Shl1(num)
    IN  /\ BitAnd(cs[j], bit) = 0
        /\ BitAnd(sgs[SubgridIndex(i, j)], bit) = 0

\* is_safe without the test of the column mask.
is_safe_without_column(rs, cs, sgs, i, j, num) ==
    LET bit == Shl1(num)
    IN  /\ BitAnd(rs[i], bit) = 0
        /\ BitAnd(sgs[SubgridIndex(i, j)], bit) = 0

\* is_safe: the three AND-zero tests against 1 << num.
is_safe(rs, cs, sgs, i, j, num) ==
    LET bit == Shl1(num)
    IN  /\ BitAnd(rs[i], bit) = 0
        /\ BitAnd(cs[j], bit) = 0
        /\ BitAnd(sgs[SubgridIndex(i, j)], bit) = 0

\* ------------------------------------------------------------------------
\* The callers' entry points
\* ------------------------------------------------------------------------

\* One active call of solve_recursive_cell_order: its arguments cell_idx and
\* depth, its locals current_idx, num and any_valid_moves, and where it is:
\* "entry" (before the scan), "loop" (at the head of `for num in 1..=9`),
\* "called" (its recursive call has returned).
EntryFrame(idx, d) ==
    [ at |-> "entry", cell_idx |-> idx, current_idx |-> idx, depth |-> d,
      num |-> 0, any_valid_moves |-> FALSE ]

Top == stack[Len(stack)]

Pop == SubSeq(stack, 1, Len(stack) - 1)

ReplaceTop(frame) == [stack EXCEPT ![Len(stack)] = frame]

\* What a caller keeps of an invocation that returned.
Outcome ==
    [ cell_order |-> cell_order, solution |-> solution,
      solutions |-> solutions, stats |-> stats ]

\* The puzzles of the model, and initialize_from_sudoku of each (computed
\* once per puzzle).
Puzzles == {from_preset(preset) : preset \in Presets}

Initialized == [puzzle \in Puzzles |-> initialize_from_sudoku(puzzle)]

\* The set-up with the statistics of the previous invocation kept.
StartSearchKeepsStats(puzzle, st, order, all, sd) ==
    /\ sudoku' = puzzle
    /\ strategy' = st
    /\ find_all' = all
    /\ seed' = sd
    /\ stats' = stats
    /\ solutions' = << >>
    /\ LET initial == Initialized[puzzle]
       IN  /\ board' = initial.board
           /\ rows' = initial.rows
           /\ cols' = initial.cols
           /\ subgrids' = initial.subgrids
    /\ cell_order' = order
    /\ stack' = << EntryFrame(0, 0) >>
    /\ solution' = None
    /\ pc' = "searching"

\* Fresh stats, solutions, board and masks, initialize_from_sudoku, the
\* cell order, and the outermost call solve_recursive_cell_order(.., 0, 0, ..).
StartSearch(puzzle, st, order, all, sd) ==
    /\ sudoku' = puzzle
    /\ strategy' = st
    /\ find_all' = all
    /\ seed' = sd
    /\ stats' = SolverStatsDefault
    /\ solutions' = << >>
    /\ LET initial == Initialized[puzzle]
       IN  /\ board' = initial.board
           /\ rows' = initial.rows
           /\ cols' = initial.cols
           /\ subgrids' = initial.subgrids
    /\ cell_order' = order
    /\ stack' = << EntryFrame(0, 0) >>
    /\ solution' = None
    /\ pc' = "searching"

\* find_one_solution_strategy: the call, up to the first recursive call.
FindOneSolutionStrategy ==
    /\ pc = "idle"
    /\ \E st \in Strategies :
         \E order \in CellOrders(st) :
            \E puzzle \in Puzzles :
               StartSearch(puzzle, st, order, FALSE, None)
    /\ prev' = None

\* find_all_solutions: the same set-up with find_all = true.
FindAllSolutions ==
    /\ pc = "idle"
    /\ \E st \in Strategies :
         \E order \in CellOrders(st) :
            \E puzzle \in Puzzles :
               StartSearch(puzzle, st, order, TRUE, None)
    /\ prev' = None

\* ------------------------------------------------------------------------
\* solve_recursive_cell_order, one step of the topmost call
\* ------------------------------------------------------------------------

OutOfBounds == NumCells + 1

\* The scan without the skip of filled cells.
NextEmptyWithoutSkip(b, order, idx) ==
    IF idx >= NumCells THEN NumCells
    ELSE IF idx >= Len(order) THEN OutOfBounds
    ELSE idx

\* "Find next empty cell": the index the while loop stops at, i.e. the first
\* index from idx on whose cell is empty; 81 when every remaining cell of
\* the order is filled; OutOfBounds when the loop reads cell_order
\* [current_idx] past the end of the order before it finds one.
NextEmpty(b, order, idx) ==
    IF idx >= NumCells THEN NumCells
    ELSE LET readable == idx .. ((IF Len(order) < NumCells
                                  THEN Len(order) ELSE NumCells) - 1)
             empty == {k \in readable :
                         b[At(order, k)[1]][At(order, k)[2]] = 0}
         IN  IF empty # {}
             THEN CHOOSE k \in empty : \A other \in empty : k <= other
             ELSE IF Len(order) < NumCells THEN OutOfBounds
             ELSE NumCells

\* The copy of the board into a new Sudoku: set_cell on every cell.
BoardToSudoku(b) ==
    [r \in Idx |-> [c \in Idx |-> set_cell(SudokuNew, r, c, b[r][c])[r][c]]]

\* The copy taken to succeed whatever the board holds.
CopySucceedsAlways(b) == TRUE

\* set_cell(..).unwrap() succeeds on every cell.
CopySucceeds(b) == \A r, c \in Idx : set_cell_ok(r, c, b[r][c])

\* The digits from num on that pass is_safe for cell (i, j).
SafeFrom(num, i, j) == {n \in num .. 9 : is_safe(rows, cols, subgrids, i, j, n)}

Searching == pc = "searching" /\ stack # << >>

\* The scan ran past the end of a cell order shorter than 81: the index
\* panics.
ScanPanics ==
    /\ Searching
    /\ Top.at = "entry"
    /\ NextEmpty(board, cell_order, Top.cell_idx) = OutOfBounds
    /\ pc' = "panicked"
    /\ UNCHANGED << sudoku, strategy, find_all, seed, cell_order, board, rows,
                    cols, subgrids, stats, solutions, stack, solution, prev >>

\* current_idx == 81 but a cell of the board is still 0: set_cell returns
\* Err and the unwrap panics.
CopyPanics ==
    /\ Searching
    /\ Top.at = "entry"
    /\ NextEmpty(board, cell_order, Top.cell_idx) = NumCells
    /\ ~CopySucceeds(board)
    /\ pc' = "panicked"
    /\ UNCHANGED << sudoku, strategy, find_all, seed, cell_order, board, rows,
                    cols, subgrids, stats, solutions, stack, solution, prev >>

\* The copy of the board put at the front of the Solution Set.
RecordSolutionPrepends ==
    /\ Searching
    /\ Top.at = "entry"
    /\ NextEmpty(board, cell_order, Top.cell_idx) = NumCells
    /\ CopySucceeds(board)
    /\ solutions' = << BoardToSudoku(board) >> \o solutions
    /\ stats' = [stats EXCEPT !.leaves = @ + 1]
    /\ stack' = Pop
    /\ UNCHANGED << pc, sudoku, strategy, find_all, seed, cell_order, board,
                    rows, cols, subgrids, solution, prev >>

\* current_idx == 81: push the copy of the board, count a leaf, return.
RecordSolution ==
    /\ Searching
    /\ Top.at = "entry"
    /\ NextEmpty(board, cell_order, Top.cell_idx) = NumCells
    /\ CopySucceeds(board)
    /\ solutions' = Append(solutions, BoardToSudoku(board))
    /\ stats' = [stats EXCEPT !.leaves = @ + 1]
    /\ stack' = Pop
    /\ UNCHANGED << pc, sudoku, strategy, find_all, seed, cell_order, board,
                    rows, cols, subgrids, solution, prev >>

\* The visit of a node without the update of the width histogram.
VisitNodeWithoutWidth ==
    /\ Searching
    /\ Top.at = "entry"
    /\ NextEmpty(board, cell_order, Top.cell_idx) < NumCells
    /\ stats' = [stats EXCEPT
                   !.nodes_explored = @ + 1,
                   !.max_recursion_depth = Max(@, Top.depth)]
    /\ stack' = ReplaceTop([Top EXCEPT
                   !.at = "loop",
                   !.current_idx = NextEmpty(board, cell_order, Top.cell_idx),
                   !.num = 1])
    /\ UNCHANGED << pc, sudoku, strategy, find_all, seed, cell_order, board,
                    rows, cols, subgrids, solutions, solution, prev >>

\* The visit of a node without the update of max_recursion_depth.
VisitNodeWithoutMaxDepth ==
    /\ Searching
    /\ Top.at = "entry"
    /\ NextEmpty(board, cell_order, Top.cell_idx) < NumCells
    /\ stats' = [stats EXCEPT
                   !.nodes_explored = @ + 1,
                   !.tree_width_by_level[Top.depth] = @ + 1]
    /\ stack' = ReplaceTop([Top EXCEPT
                   !.at = "loop",
                   !.current_idx = NextEmpty(board, cell_order, Top.cell_idx),
                   !.num = 1])
    /\ UNCHANGED << pc, sudoku, strategy, find_all, seed, cell_order, board,
                    rows, cols, subgrids, solutions, solution, prev >>

\* An empty cell is reached: "Update stats" and enter the digit loop.
VisitNode ==
    /\ Searching
    /\ Top.at = "entry"
    /\ NextEmpty(board, cell_order, Top.cell_idx) < NumCells
    /\ stats' = [stats EXCEPT
                   !.nodes_explored = @ + 1,
                   !.max_recursion_depth = Max(@, Top.depth),
                   !.tree_width_by_level[Top.depth] = @ + 1]
    /\ stack' = ReplaceTop([Top EXCEPT
                   !.at = "loop",
                   !.current_idx = NextEmpty(board, cell_order, Top.cell_idx),
                   !.num = 1])
    /\ UNCHANGED << pc, sudoku, strategy, find_all, seed, cell_order, board,
                    rows, cols, subgrids, solutions, solution, prev >>

\* The placement without the update of the box mask.
PlaceDigitWithoutBoxBit ==
    /\ Searching
    /\ Top.at = "loop"
    /\ \E num \in Digits :
         LET i == At(cell_order, Top.current_idx)[1]
             j == At(cell_order, Top.current_idx)[2]
             bit == Shl1(num)
         IN  /\ num >= Top.num
             /\ is_safe(rows, cols, subgrids, i, j, num)
             /\ \A failed \in Top.num .. (num - 1) :
                   ~is_safe(rows, cols, subgrids, i, j, failed)
             /\ board' = [board EXCEPT ![i][j] = num]
             /\ rows' = [rows EXCEPT ![i] = BitOr(@, bit)]
             /\ cols' = [cols EXCEPT ![j] = BitOr(@, bit)]
             /\ stack' = Append(
                   ReplaceTop([Top EXCEPT !.at = "called", !.num = num,
                                          !.any_valid_moves = TRUE]),
                   EntryFrame(Top.current_idx + 1, Top.depth + 1))
    /\ UNCHANGED << pc, sudoku, strategy, find_all, seed, cell_order, stats,
                    solutions, solution, prev, subgrids >>

\* The placement with the recursive call's depth taken from the position in
\* the cell order.
PlaceDigitDepthByPosition ==
    /\ Searching
    /\ Top.at = "loop"
    /\ \E num \in Digits :
         LET i == At(cell_order, Top.current_idx)[1]
             j == At(cell_order, Top.current_idx)[2]
             bit == Shl1(num)
         IN  /\ num >= Top.num
             /\ is_safe(rows, cols, subgrids, i, j, num)
             /\ \A failed \in Top.num .. (num - 1) :
                   ~is_safe(rows, cols, subgrids, i, j, failed)
             /\ board' = [board EXCEPT ![i][j] = num]
             /\ rows' = [rows EXCEPT ![i] = BitOr(@, bit)]
             /\ cols' = [cols EXCEPT ![j] = BitOr(@, bit)]
             /\ subgrids' = [subgrids EXCEPT
                               ![SubgridIndex(i, j)] = BitOr(@, bit)]
             /\ stack' = Append(
                   ReplaceTop([Top EXCEPT !.at = "called", !.num = num,
                                          !.any_valid_moves = TRUE]),
                   EntryFrame(Top.current_idx + 1, Top.current_idx + 1))
    /\ UNCHANGED << pc, sudoku, strategy, find_all, seed, cell_order, stats,
                    solutions, solution, prev >>

\* The digit loop trying the digits in descending order: the digit placed
\* is the largest one that passes is_safe.
PlaceDigitLargestFirst ==
    /\ Searching
    /\ Top.at = "loop"
    /\ \E num \in Digits :
         LET i == At(cell_order, Top.current_idx)[1]
             j == At(cell_order, Top.current_idx)[2]
             bit == Shl1(num)
         IN  /\ num >= Top.num
             /\ is_safe(rows, cols, subgrids, i, j, num)
             /\ \A other \in (num + 1) .. N :
                   ~is_safe(rows, cols, subgrids, i, j, other)
             /\ board' = [board EXCEPT ![i][j] = num]
             /\ rows' = [rows EXCEPT ![i] = BitOr(@, bit)]
             /\ cols' = [cols EXCEPT ![j] = BitOr(@, bit)]
             /\ subgrids' = [subgrids EXCEPT
                               ![SubgridIndex(i, j)] = BitOr(@, bit)]
             /\ stack' = Append(ReplaceTop([Top EXCEPT !.at = "called",
                                                       !.num = num,
                                                       !.any_valid_moves = TRUE]),
                                EntryFrame(Top.current_idx + 1, Top.depth + 1))
    /\ UNCHANGED << pc, sudoku, strategy, find_all, seed, cell_order, stats,
                    solutions, solution, prev >>

\* The loop reaches the next digit that passes is_safe (the iterations that
\* fail the test change nothing): place it, set the three mask bits, recurse
\* with current_idx + 1 and depth + 1.
PlaceDigit ==
    /\ Searching
    /\ Top.at = "loop"
    /\ \E num \in Digits :
         LET i == At(cell_order, Top.current_idx)[1]
             j == At(cell_order, Top.current_idx)[2]
             bit == Shl1(num)
         IN  /\ num >= Top.num
             /\ is_safe(rows, cols, subgrids, i, j, num)
             /\ \A failed \in Top.num .. (num - 1) :
                   ~is_safe(rows, cols, subgrids, i, j, failed)
             /\ board' = [board EXCEPT ![i][j] = num]
             /\ rows' = [rows EXCEPT ![i] = BitOr(@, bit)]
             /\ cols' = [cols EXCEPT ![j] = BitOr(@, bit)]
             /\ subgrids' = [subgrids EXCEPT
                               ![SubgridIndex(i, j)] = BitOr(@, bit)]
             /\ stack' = Append(
                   ReplaceTop([Top EXCEPT !.at = "called", !.num = num,
                                          !.any_valid_moves = TRUE]),
                   EntryFrame(Top.current_idx + 1, Top.depth + 1))
    /\ UNCHANGED << pc, sudoku, strategy, find_all, seed, cell_order, stats,
                    solutions, solution, prev >>

\* The end of the digit loop without the return: the call stays where it is.
ExhaustDigitsWithoutReturn ==
    /\ Searching
    /\ Top.at = "loop"
    /\ LET i == At(cell_order, Top.current_idx)[1]
           j == At(cell_order, Top.current_idx)[2]
       IN  SafeFrom(Top.num, i, j) = {}
    /\ UNCHANGED vars

\* The end of the digit loop counted as a leaf whether or not a digit was
\* placed.
ExhaustDigitsAlwaysLeaf ==
    /\ Searching
    /\ Top.at = "loop"
    /\ LET i == At(cell_order, Top.current_idx)[1]
           j == At(cell_order, Top.current_idx)[2]
       IN  SafeFrom(Top.num, i, j) = {}
    /\ stats' = [stats EXCEPT !.leaves = @ + 1]
    /\ stack' = Pop
    /\ UNCHANGED << pc, sudoku, strategy, find_all, seed, cell_order, board,
                    rows, cols, subgrids, solutions, solution, prev >>

\* The end of the digit loop with the leaf test inverted: a leaf is counted
\* at the nodes that placed a digit.
ExhaustDigitsLeafInverted ==
    /\ Searching
    /\ Top.at = "loop"
    /\ LET i == At(cell_order, Top.current_idx)[1]
           j == At(cell_order, Top.current_idx)[2]
       IN  SafeFrom(Top.num, i, j) = {}
    /\ stats' = IF Top.any_valid_moves
                THEN [stats EXCEPT !.leaves = @ + 1]
                ELSE stats
    /\ stack' = Pop
    /\ UNCHANGED << pc, sudoku, strategy, find_all, seed, cell_order, board,
                    rows, cols, subgrids, solutions, solution, prev >>

\* The loop ends (no digit from num on passes): a node at which no digit
\* was ever placed is a dead-end leaf; return.
ExhaustDigits ==
    /\ Searching
    /\ Top.at = "loop"
    /\ LET i == At(cell_order, Top.current_idx)[1]
           j == At(cell_order, Top.current_idx)[2]
       IN  SafeFrom(Top.num, i, j) = {}
    /\ stats' = IF ~Top.any_valid_moves
                THEN [stats EXCEPT !.leaves = @ + 1]
                ELSE stats
    /\ stack' = Pop
    /\ UNCHANGED << pc, sudoku, strategy, find_all, seed, cell_order, board,
                    rows, cols, subgrids, solutions, solution, prev >>

\* The early stop without the test of find_all.
EarlyStopInBothModes == solutions # << >>

\* The early stop with the test of find_all inverted.
EarlyStopInverted == solutions # << >> /\ find_all

\* No early stop at all.
EarlyStopNever == FALSE

\* `if !solutions.is_empty() && !find_all { return; }`
EarlyStop == solutions # << >> /\ ~find_all

\* After the recursive call: the early return, nothing undone.
EarlyReturn ==
    /\ Searching
    /\ Top.at = "called"
    /\ EarlyStop
    /\ stack' = Pop
    /\ UNCHANGED << pc, sudoku, strategy, find_all, seed, cell_order, board,
                    rows, cols, subgrids, stats, solutions, solution, prev >>

\* The backtrack without the clearing of the row mask's bit.
BacktrackKeepsRowBit ==
    /\ Searching
    /\ Top.at = "called"
    /\ ~(solutions # << >> /\ ~find_all)
    /\ LET i == At(cell_order, Top.current_idx)[1]
           j == At(cell_order, Top.current_idx)[2]
           bit == Shl1(Top.num)
       IN  /\ board' = [board EXCEPT ![i][j] = 0]
           /\ cols' = [cols EXCEPT ![j] = BitAnd(@, BitNot(bit))]
           /\ subgrids' = [subgrids EXCEPT
                             ![SubgridIndex(i, j)] = BitAnd(@, BitNot(bit))]
    /\ stats' = [stats EXCEPT !.backtracks = @ + 1]
    /\ stack' = ReplaceTop([Top EXCEPT !.at = "loop", !.num = @ + 1])
    /\ UNCHANGED << pc, sudoku, strategy, find_all, seed, cell_order, rows,
                    solutions, solution, prev >>

\* The backtrack without the clearing of the board cell.
BacktrackKeepsBoardCell ==
    /\ Searching
    /\ Top.at = "called"
    /\ ~(solutions # << >> /\ ~find_all)
    /\ LET i == At(cell_order, Top.current_idx)[1]
           j == At(cell_order, Top.current_idx)[2]
           bit == Shl1(Top.num)
       IN  /\ rows' = [rows EXCEPT ![i] = BitAnd(@, BitNot(bit))]
           /\ cols' = [cols EXCEPT ![j] = BitAnd(@, BitNot(bit))]
           /\ subgrids' = [subgrids EXCEPT
                             ![SubgridIndex(i, j)] = BitAnd(@, BitNot(bit))]
    /\ stats' = [stats EXCEPT !.backtracks = @ + 1]
    /\ stack' = ReplaceTop([Top EXCEPT !.at = "loop", !.num = @ + 1])
    /\ UNCHANGED << pc, sudoku, strategy, find_all, seed, cell_order, board,
                    solutions, solution, prev >>

\* The backtrack clearing the cell at the call's entry position cell_idx
\* instead of the cell at current_idx.
BacktrackClearsEntryCell ==
    /\ Searching
    /\ Top.at = "called"
    /\ ~(solutions # << >> /\ ~find_all)
    /\ LET i == At(cell_order, Top.current_idx)[1]
           j == At(cell_order, Top.current_idx)[2]
           bit == Shl1(Top.num)
       IN  /\ board' = [board EXCEPT
                          ![At(cell_order, Top.cell_idx)[1]]
                           [At(cell_order, Top.cell_idx)[2]] = 0]
           /\ rows' = [rows EXCEPT ![i] = BitAnd(@, BitNot(bit))]
           /\ cols' = [cols EXCEPT ![j] = BitAnd(@, BitNot(bit))]
           /\ subgrids' = [subgrids EXCEPT
                             ![SubgridIndex(i, j)] = BitAnd(@, BitNot(bit))]
    /\ stats' = [stats EXCEPT !.backtracks = @ + 1]
    /\ stack' = ReplaceTop([Top EXCEPT !.at = "loop", !.num = @ + 1])
    /\ UNCHANGED << pc, sudoku, strategy, find_all, seed, cell_order,
                    solutions, solution, prev >>

\* The backtrack without its count.
BacktrackUncounted ==
    /\ Searching
    /\ Top.at = "called"
    /\ ~(solutions # << >> /\ ~find_all)
    /\ LET i == At(cell_order, Top.current_idx)[1]
           j == At(cell_order, Top.current_idx)[2]
           bit == Shl1(Top.num)
       IN  /\ board' = [board EXCEPT ![i][j] = 0]
           /\ rows' = [rows EXCEPT ![i] = BitAnd(@, BitNot(bit))]
           /\ cols' = [cols EXCEPT ![j] = BitAnd(@, BitNot(bit))]
           /\ subgrids' = [subgrids EXCEPT
                             ![SubgridIndex(i, j)] = BitAnd(@, BitNot(bit))]
    /\ stack' = ReplaceTop([Top EXCEPT !.at = "loop", !.num = @ + 1])
    /\ UNCHANGED << pc, sudoku, strategy, find_all, seed, cell_order, stats,
                    solutions, solution, prev >>

\* After the recursive call: "Backtrack", then the next iteration.
Backtrack ==
    /\ Searching
    /\ Top.at = "called"
    /\ ~EarlyStop
    /\ LET i == At(cell_order, Top.current_idx)[1]
           j == At(cell_order, Top.current_idx)[2]
           bit == Shl1(Top.num)
       IN  /\ board' = [board EXCEPT ![i][j] = 0]
           /\ rows' = [rows EXCEPT ![i] = BitAnd(@, BitNot(bit))]
           /\ cols' = [cols EXCEPT ![j] = BitAnd(@, BitNot(bit))]
           /\ subgrids' = [subgrids EXCEPT
                             ![SubgridIndex(i, j)] = BitAnd(@, BitNot(bit))]
    /\ stats' = [stats EXCEPT !.backtracks = @ + 1]
    /\ stack' = ReplaceTop([Top EXCEPT !.at = "loop", !.num = @ + 1])
    /\ UNCHANGED << pc, sudoku, strategy, find_all, seed, cell_order,
                    solutions, solution, prev >>

\* The return without the assignment of solutions_found.
ReturnOneKeepsCount ==
    /\ pc = "searching"
    /\ stack = << >>
    /\ ~find_all
    /\ solution' = IF solutions = << >> THEN None ELSE Some(Head(solutions))
    /\ pc' = "returned"
    /\ UNCHANGED << sudoku, strategy, find_all, seed, cell_order, board, rows,
                    cols, subgrids, stats, solutions, stack, prev >>

\* The outermost call has returned to find_one_solution_strategy:
\* solutions.into_iter().next(), solutions_found 1 or 0.
ReturnOne ==
    /\ pc = "searching"
    /\ stack = << >>
    /\ ~find_all
    /\ solution' = IF solutions = << >> THEN None ELSE Some(Head(solutions))
    /\ stats' = [stats EXCEPT
                   !.solutions_found = IF solutions = << >> THEN 0 ELSE 1]
    /\ pc' = "returned"
    /\ UNCHANGED << sudoku, strategy, find_all, seed, cell_order, board, rows,
                    cols, subgrids, solutions, stack, prev >>

\* The outermost call has returned to find_all_solutions:
\* solutions_found = solutions.len().
ReturnAll ==
    /\ pc = "searching"
    /\ stack = << >>
    /\ find_all
    /\ stats' = [stats EXCEPT !.solutions_found = Len(solutions)]
    /\ pc' = "returned"
    /\ UNCHANGED << sudoku, strategy, find_all, seed, cell_order, board, rows,
                    cols, subgrids, solutions, stack, solution, prev >>

Init ==
    /\ pc = "idle"
    /\ sudoku = SudokuNew
    /\ strategy = [tag |-> "Default"]
    /\ find_all = FALSE
    /\ seed = None
    /\ cell_order = << >>
    /\ board = [i \in Idx |-> [j \in Idx |-> 0]]
    /\ rows = [i \in Idx |-> 0]
    /\ cols = [i \in Idx |-> 0]
    /\ subgrids = [i \in Idx |-> 0]
    /\ stats = SolverStatsDefault
    /\ solutions = << >>
    /\ stack = << >>
    /\ solution = None
    /\ prev = None

Next ==
    \/ FindOneSolutionStrategy
    \/ FindAllSolutions
    \/ ScanPanics
    \/ CopyPanics
    \/ RecordSolution
    \/ VisitNode
    \/ PlaceDigit
    \/ ExhaustDigits
    \/ EarlyReturn
    \/ Backtrack
    \/ ReturnOne
    \/ ReturnAll

Spec == Init /\ [][Next]_vars

\* ------------------------------------------------------------------------
\* A caller that repeats an invocation with the same inputs
\* (rand_ord_experiment run twice with the same --seed on the same puzzle)
\* ------------------------------------------------------------------------

\* The caller has a seed (cli.seed, used to seed the rng that samples the
\* puzzles) and calls find_one_solution_strategy, which takes no seed.
FirstInvocation ==
    /\ pc = "idle"
    /\ \E st \in Strategies :
         \E order \in CellOrders(st) :
            \E puzzle \in Puzzles :
               StartSearch(puzzle, st, order, FALSE, Some(ExampleSeed))
    /\ prev' = None

\* The same call again: same puzzle, same strategy, same seed.  The cell
\* order is generated anew by the match on the strategy.
SecondInvocation ==
    /\ pc = "returned"
    /\ prev = None
    /\ \E order \in CellOrders(strategy) :
         StartSearch(sudoku, strategy, order, find_all, seed)
    /\ prev' = Some(Outcome)

NextRepeat ==
    \/ FirstInvocation
    \/ SecondInvocation
    \/ ScanPanics
    \/ CopyPanics
    \/ RecordSolution
    \/ VisitNode
    \/ PlaceDigit
    \/ ExhaustDigits
    \/ EarlyReturn
    \/ Backtrack
    \/ ReturnOne

SpecRepeat == Init /\ [][NextRepeat]_vars

\* ------------------------------------------------------------------------
\* A caller that runs both modes on the same puzzle (main.rs, mode
\* comparison: find_one_solution, then find_all_solutions)
\* ------------------------------------------------------------------------

\* The all-solutions search on the puzzle and the cell order of the
\* single-solution search that has just returned.
AllSolutionsInvocation ==
    /\ pc = "returned"
    /\ prev = None
    /\ ~find_all
    /\ StartSearch(sudoku, strategy, cell_order, TRUE, seed)
    /\ prev' = Some(Outcome)

NextCompare ==
    \/ FindOneSolutionStrategy
    \/ AllSolutionsInvocation
    \/ ScanPanics
    \/ CopyPanics
    \/ RecordSolution
    \/ VisitNode
    \/ PlaceDigit
    \/ ExhaustDigits
    \/ EarlyReturn
    \/ Backtrack
    \/ ReturnOne
    \/ ReturnAll

SpecCompare == Init /\ [][NextCompare]_vars

\* ------------------------------------------------------------------------
\* The search as it runs: a call that has started is carried on (the
\* program is sequential and nothing suspends it)
\* ------------------------------------------------------------------------

\* ------------------------------------------------------------------------
\* The legacy row-major solver (src/bf_solver.rs), run after the cell-order
\* solver on the same puzzle and in the same mode
\* ------------------------------------------------------------------------

\* SolverStats::default() of the legacy module: it has no leaves field.
LegacyStatsDefault ==
    [ solutions_found |-> 0,
      max_recursion_depth |-> 0,
      nodes_explored |-> 0,
      backtracks |-> 0,
      tree_width_by_level |-> [d \in Depths |-> 0] ]

\* initialize_from_sudoku of the legacy module: the same two loops.
legacy_initialize_from_sudoku(grid) ==
    [ board |->
        [i \in Idx |-> [j \in Idx |->
            IF get_solved_value(grid, i, j) = None
            THEN 0
            ELSE Unwrap(get_solved_value(grid, i, j))]],
      rows |->
        [i \in Idx |-> LET at == [k \in Idx |-> <<i, k>>] IN OrClues(grid, at, N)],
      cols |->
        [j \in Idx |-> LET at == [k \in Idx |-> <<k, j>>] IN OrClues(grid, at, N)],
      subgrids |->
        [b \in Idx |->
            LET at == [k \in Idx |->
                        << (b \div BoxSide) * BoxSide + (k \div BoxSide),
                           (b % BoxSide) * BoxSide + (k % BoxSide) >>]
            IN  OrClues(grid, at, N)] ]

LegacyInitialized ==
    [puzzle \in Puzzles |-> legacy_initialize_from_sudoku(puzzle)]

\* is_safe of the legacy module.
legacy_is_safe(rs, cs, sgs, i, j, num) ==
    LET bit == Shl1(num)
    IN  /\ BitAnd(rs[i], bit) = 0
        /\ BitAnd(cs[j], bit) = 0
        /\ BitAnd(sgs[SubgridIndex(i, j)], bit) = 0

\* One active call of solve_recursive: its arguments i, j and depth (i and j
\* are rebound by the scan), its loop variable num, and where it is.
LegacyEntryFrame(i, j, d) ==
    [ at |-> "entry", i |-> i, j |-> j, depth |-> d, num |-> 0 ]

\* `while i < 9 && board[i][j] != 0`: the first empty cell from (i, j) on in
\* row-major order, as << i, j >>; i == 9 when there is none.
LegacyNextEmpty(b, i, j) ==
    IF i >= N THEN << i, j >>
    ELSE LET empty == {q \in (N * i + j) .. (NumCells - 1) :
                          b[q \div N][q % N] = 0}
         IN  IF empty = {} THEN << N, 0 >>
             ELSE LET q == CHOOSE k \in empty : \A other \in empty : k <= other
                  IN  << q \div N, q % N >>

\* The setup of find_one_solution / find_all_solutions of the legacy module
\* on the puzzle of the cell-order search that has returned.
LegacyStart ==
    /\ prev' = Some(Outcome)
    /\ stats' = LegacyStatsDefault
    /\ solutions' = << >>
    /\ LET initial == LegacyInitialized[sudoku]
       IN  /\ board' = initial.board
           /\ rows' = initial.rows
           /\ cols' = initial.cols
           /\ subgrids' = initial.subgrids
    /\ stack' = << LegacyEntryFrame(0, 0, 0) >>
    /\ solution' = None
    /\ pc' = "legacy"
    /\ UNCHANGED << sudoku, strategy, find_all, seed, cell_order >>

\* find_one_solution of the legacy module, after the Default single-solution
\* search of the cell-order solver.
LegacyFindOneSolution ==
    /\ pc = "returned"
    /\ prev = None
    /\ strategy.tag = "Default"
    /\ ~find_all
    /\ LegacyStart

\* find_all_solutions of the legacy module, after the Default all-solutions
\* search of the cell-order solver.
LegacyFindAllSolutions ==
    /\ pc = "returned"
    /\ prev = None
    /\ strategy.tag = "Default"
    /\ find_all
    /\ LegacyStart

LegacySearching == pc = "legacy" /\ stack # << >>

\* i == 9: push the copy of the board and return (no leaf is counted).
LegacyRecordSolution ==
    /\ LegacySearching
    /\ Top.at = "entry"
    /\ LegacyNextEmpty(board, Top.i, Top.j)[1] = N
    /\ CopySucceeds(board)
    /\ solutions' = Append(solutions, BoardToSudoku(board))
    /\ stack' = Pop
    /\ UNCHANGED << pc, sudoku, strategy, find_all, seed, cell_order, board,
                    rows, cols, subgrids, stats, solution, prev >>

\* An empty cell is reached: "Update depth and node stats" and enter the
\* digit loop.
LegacyVisitNode ==
    /\ LegacySearching
    /\ Top.at = "entry"
    /\ LegacyNextEmpty(board, Top.i, Top.j)[1] < N
    /\ stats' = [stats EXCEPT
                   !.nodes_explored = @ + 1,
                   !.max_recursion_depth = Max(@, Top.depth),
                   !.tree_width_by_level[Top.depth] = @ + 1]
    /\ stack' = ReplaceTop([Top EXCEPT
                   !.at = "loop",
                   !.i = LegacyNextEmpty(board, Top.i, Top.j)[1],
                   !.j = LegacyNextEmpty(board, Top.i, Top.j)[2],
                   !.num = 1])
    /\ UNCHANGED << pc, sudoku, strategy, find_all, seed, cell_order, board,
                    rows, cols, subgrids, solutions, solution, prev >>

\* The recursive call made with the caller's depth instead of depth + 1.
LegacyPlaceDigitSameDepth ==
    /\ LegacySearching
    /\ Top.at = "loop"
    /\ \E num \in Digits :
         LET i == Top.i
             j == Top.j
             bit == Shl1(num)
             next_j == IF j = 8 THEN 0 ELSE j + 1
             next_i == IF j = 8 THEN i + 1 ELSE i
         IN  /\ num >= Top.num
             /\ legacy_is_safe(rows, cols, subgrids, i, j, num)
             /\ \A failed \in Top.num .. (num - 1) :
                   ~legacy_is_safe(rows, cols, subgrids, i, j, failed)
             /\ board' = [board EXCEPT ![i][j] = num]
             /\ rows' = [rows EXCEPT ![i] = BitOr(@, bit)]
             /\ cols' = [cols EXCEPT ![j] = BitOr(@, bit)]
             /\ subgrids' = [subgrids EXCEPT
                               ![SubgridIndex(i, j)] = BitOr(@, bit)]
             /\ stack' = Append(ReplaceTop([Top EXCEPT !.at = "called",
                                                       !.num = num]),
                                LegacyEntryFrame(next_i, next_j, Top.depth))
    /\ UNCHANGED << pc, sudoku, strategy, find_all, seed, cell_order, stats,
                    solutions, solution, prev >>

\* The next digit from num on that passes is_safe: place it, set the three
\* bits, and call solve_recursive for the next cell in row-major order with
\* depth + 1.
LegacyPlaceDigit ==
    /\ LegacySearching
    /\ Top.at = "loop"
    /\ \E num \in Digits :
         LET i == Top.i
             j == Top.j
             bit == Shl1(num)
             next_j == IF j = 8 THEN 0 ELSE j + 1
             next_i == IF j = 8 THEN i + 1 ELSE i
         IN  /\ num >= Top.num
             /\ legacy_is_safe(rows, cols, subgrids, i, j, num)
             /\ \A failed \in Top.num .. (num - 1) :
                   ~legacy_is_safe(rows, cols, subgrids, i, j, failed)
             /\ board' = [board EXCEPT ![i][j] = num]
             /\ rows' = [rows EXCEPT ![i] = BitOr(@, bit)]
             /\ cols' = [cols EXCEPT ![j] = BitOr(@, bit)]
             /\ subgrids' = [subgrids EXCEPT
                               ![SubgridIndex(i, j)] = BitOr(@, bit)]
             /\ stack' = Append(ReplaceTop([Top EXCEPT !.at = "called",
                                                       !.num = num]),
                                LegacyEntryFrame(next_i, next_j, Top.depth + 1))
    /\ UNCHANGED << pc, sudoku, strategy, find_all, seed, cell_order, stats,
                    solutions, solution, prev >>

\* The loop ends (no digit from num on passes): return.
LegacyExhaustDigits ==
    /\ LegacySearching
    /\ Top.at = "loop"
    /\ \A n \in Top.num .. 9 :
          ~legacy_is_safe(rows, cols, subgrids, Top.i, Top.j, n)
    /\ stack' = Pop
    /\ UNCHANGED << pc, sudoku, strategy, find_all, seed, cell_order, board,
                    rows, cols, subgrids, stats, solutions, solution, prev >>

\* After the recursive call: the early return, nothing undone.
LegacyEarlyReturn ==
    /\ LegacySearching
    /\ Top.at = "called"
    /\ solutions # << >> /\ ~find_all
    /\ stack' = Pop
    /\ UNCHANGED << pc, sudoku, strategy, find_all, seed, cell_order, board,
                    rows, cols, subgrids, stats, solutions, solution, prev >>

\* After the recursive call: "Backtrack", then the next iteration.
LegacyBacktrack ==
    /\ LegacySearching
    /\ Top.at = "called"
    /\ ~(solutions # << >> /\ ~find_all)
    /\ LET bit == Shl1(Top.num)
       IN  /\ board' = [board EXCEPT ![Top.i][Top.j] = 0]
           /\ rows' = [rows EXCEPT ![Top.i] = BitAnd(@, BitNot(bit))]
           /\ cols' = [cols EXCEPT ![Top.j] = BitAnd(@, BitNot(bit))]
           /\ subgrids' = [subgrids EXCEPT
                             ![SubgridIndex(Top.i, Top.j)] = BitAnd(@, BitNot(bit))]
    /\ stats' = [stats EXCEPT !.backtracks = @ + 1]
    /\ stack' = ReplaceTop([Top EXCEPT !.at = "loop", !.num = @ + 1])
    /\ UNCHANGED << pc, sudoku, strategy, find_all, seed, cell_order,
                    solutions, solution, prev >>

\* The outermost call has returned to find_one_solution:
\* solutions.into_iter().next(), solutions_found 1 or 0.
LegacyReturnOne ==
    /\ pc = "legacy"
    /\ stack = << >>
    /\ ~find_all
    /\ solution' = IF solutions = << >> THEN None ELSE Some(Head(solutions))
    /\ stats' = [stats EXCEPT
                   !.solutions_found = IF solutions = << >> THEN 0 ELSE 1]
    /\ pc' = "legacy_returned"
    /\ UNCHANGED << sudoku, strategy, find_all, seed, cell_order, board, rows,
                    cols, subgrids, solutions, stack, prev >>

\* The outermost call has returned to find_all_solutions:
\* solutions_found = solutions.len().
LegacyReturnAll ==
    /\ pc = "legacy"
    /\ stack = << >>
    /\ find_all
    /\ stats' = [stats EXCEPT !.solutions_found = Len(solutions)]
    /\ pc' = "legacy_returned"
    /\ UNCHANGED << sudoku, strategy, find_all, seed, cell_order, board, rows,
                    cols, subgrids, solutions, stack, solution, prev >>

NextLegacy ==
    \/ FindOneSolutionStrategy
    \/ FindAllSolutions
    \/ ScanPanics
    \/ CopyPanics
    \/ RecordSolution
    \/ VisitNode
    \/ PlaceDigit
    \/ ExhaustDigits
    \/ EarlyReturn
    \/ Backtrack
    \/ ReturnOne
    \/ ReturnAll
    \/ LegacyFindOneSolution
    \/ LegacyFindAllSolutions
    \/ LegacyRecordSolution
    \/ LegacyVisitNode
    \/ LegacyPlaceDigit
    \/ LegacyExhaustDigits
    \/ LegacyEarlyReturn
    \/ LegacyBacktrack
    \/ LegacyReturnOne
    \/ LegacyReturnAll

SpecLegacy == Init /\ [][NextLegacy]_vars

\* One step of the running search or of the return to the caller.
SearchStep ==
    \/ ScanPanics
    \/ CopyPanics
    \/ RecordSolution
    \/ VisitNode
    \/ PlaceDigit
    \/ ExhaustDigits
    \/ EarlyReturn
    \/ Backtrack
    \/ ReturnOne
    \/ ReturnAll

SpecLive == Spec /\ WF_vars(SearchStep)

\* ------------------------------------------------------------------------
\* Vocabulary of the properties
\* ------------------------------------------------------------------------

\* The 27 units of the grid: rows, columns and 3x3 boxes.
Units ==
    {{<<r, c>> : c \in Idx} : r \in Idx}
        \cup {{<<r, c>> : r \in Idx} : c \in Idx}
        \cup {{x \in Cell : x[1] \div 3 = bi /\ x[2] \div 3 = bj} :
                bi \in 0 .. 2, bj \in 0 .. 2}

\* The start board: the puzzle's clues, 0 where there is none.
StartBoard ==
    [r \in Idx |-> [c \in Idx |->
        IF Cardinality(sudoku[r][c]) = 1
        THEN CHOOSE v \in sudoku[r][c] : TRUE
        ELSE 0]]

EmptyCells(b) == {x \in Cell : b[x[1]][x[2]] = 0}

\* No digit twice among the filled cells of any unit.
DuplicateFree(b) ==
    \A u \in Units :
        Cardinality({b[x[1]][x[2]] : x \in u \ EmptyCells(b)})
            = Cardinality(u \ EmptyCells(b))

\* The order lists each of the 81 cells exactly once.
Bijective(order) ==
    /\ Len(order) = NumCells
    /\ {order[k] : k \in 1 .. Len(order)} = Cell

\* A board completely filled with every digit once in every unit.
ValidBoard(b) == \A u \in Units : {b[x[1]][x[2]] : x \in u} = Digits

\* The same of a Sudoku's candidate sets.
ValidGrid(grid) ==
    /\ \A x \in Cell : \E d \in Digits : grid[x[1]][x[2]] = {d}
    /\ \A u \in Units : \A d \in Digits :
          Cardinality({x \in u : grid[x[1]][x[2]] = {d}}) = 1

MissingInRow(b, r) == Digits \ {b[r][c] : c \in Idx}

\* The valid completions of a start board: the valid boards that agree with
\* it on its clues (a completion puts in each empty cell a digit its row
\* lacks).
Completions(b) ==
    LET empty == EmptyCells(b)
        cand == UNION {MissingInRow(b, x[1]) : x \in empty}
        fills == {f \in [empty -> cand] :
                    \A x \in empty : f[x] \in MissingInRow(b, x[1])}
        Fill(f) == [r \in Idx |-> [c \in Idx |->
                      IF <<r, c>> \in empty THEN f[<<r, c>>] ELSE b[r][c]]]
    IN  {g \in {Fill(f) : f \in fills} : ValidBoard(g)}

\* The Sudoku that holds a completely filled board.
GridOf(b) == [r \in Idx |-> [c \in Idx |-> {b[r][c]}]]

Returned == pc = "returned"

LegalInputs == Bijective(cell_order) /\ DuplicateFree(StartBoard)

\* ------------------------------------------------------------------------
\* Properties
\* ------------------------------------------------------------------------

\* C1: for a duplicate-free start board and a bijective cell order, every
\* board the search appends to the Solution Set, and the board
\* find_one_solution_strategy returns, is completely filled with digits 1..9,
\* has every digit exactly once in every row, column and box, and passes
\* is_solved.
C1_ReturnedBoardsAreSolved ==
    (solutions # << >> /\ LegalInputs) =>
        /\ \A k \in 1 .. Len(solutions) :
              is_solved(solutions[k]) /\ ValidGrid(solutions[k])
        /\ solution # None =>
              is_solved(Unwrap(solution)) /\ ValidGrid(Unwrap(solution))

\* C1 witness: a single-solution search on a duplicate-free board returned a
\* board after having backtracked.
C1_Witness ==
    /\ Returned
    /\ ~find_all
    /\ LegalInputs
    /\ solution # None
    /\ stats.backtracks >= 1

\* C2: for a duplicate-free start board, single-solution search under any
\* bijective cell order returns a board iff the board has a valid
\* completion (so the orders agree on whether a solution is found), and for
\* a board with exactly one completion every order returns that completion
\* with solutions_found == 1.
C2_OrderDoesNotChangeOutcome ==
    (Returned /\ ~find_all /\ LegalInputs) =>
        LET comps == Completions(StartBoard)
        IN  /\ solution # None <=> comps # {}
            /\ Cardinality(comps) = 1 =>
                  /\ solution = Some(GridOf(CHOOSE g \in comps : TRUE))
                  /\ stats.solutions_found = 1

\* C2 witness: a uniquely solvable board with three empty cells solved
\* under an order other than the row-major one.
C2_Witness ==
    /\ Returned
    /\ ~find_all
    /\ LegalInputs
    /\ cell_order # RowMajor
    /\ Cardinality(EmptyCells(StartBoard)) >= 3
    /\ Cardinality(Completions(StartBoard)) = 1
    /\ solution # None

\* C3: in all-solutions mode on a duplicate-free start board with a
\* bijective cell order the returned list holds every valid completion
\* exactly once, and solutions_found is their number.
C3_AllSolutionsComplete ==
    (Returned /\ find_all /\ LegalInputs) =>
        LET comps == Completions(StartBoard)
        IN  /\ {solutions[k] : k \in 1 .. Len(solutions)}
                  = {GridOf(g) : g \in comps}
            /\ Len(solutions) = Cardinality(comps)
            /\ stats.solutions_found = Cardinality(comps)
            /\ \A k1, k2 \in 1 .. Len(solutions) :
                  k1 # k2 => solutions[k1] # solutions[k2]

\* C3 witness: an all-solutions search returned two boards.
C3_Witness ==
    /\ Returned
    /\ find_all
    /\ LegalInputs
    /\ Len(solutions) = 2
    /\ Cardinality(Completions(StartBoard)) = 2

\* C4: a start board without a valid completion makes the search return
\* normally with an empty Solution Set and solutions_found == 0 (stated for
\* bijective cell orders).
C4_NoCompletionEmptyResult ==
    (Bijective(cell_order) /\ Completions(StartBoard) = {}) =>
        /\ pc # "panicked"
        /\ Returned =>
              /\ solutions = << >>
              /\ solution = None
              /\ stats.solutions_found = 0

\* C5: the width histogram sums to nodes_explored in every state of the
\* search, in both modes and for every cell order.
C5_TreeDataConsistent == is_tree_data_consistent(stats)

\* C5 witness: an all-solutions search returned after visiting nodes at
\* three depths or more.
C5_Witness ==
    /\ Returned
    /\ find_all
    /\ stats.nodes_explored >= 4
    /\ stats.max_recursion_depth >= 2

\* C6: in single-solution mode, once a solution is appended every step up to
\* the return of the outermost call only returns from a call: the board, the
\* masks, nodes_explored, leaves, backtracks, the width histogram and the
\* Solution Set stay as they are; and at return the scratch board is the
\* returned solution.
C6_NothingChangesAfterSolution ==
    /\ [][ (pc = "searching" /\ ~find_all /\ solutions # << >>) =>
              /\ board' = board
              /\ rows' = rows
              /\ cols' = cols
              /\ subgrids' = subgrids
              /\ solutions' = solutions
              /\ stats'.nodes_explored = stats.nodes_explored
              /\ stats'.leaves = stats.leaves
              /\ stats'.backtracks = stats.backtracks
              /\ stats'.tree_width_by_level = stats.tree_width_by_level
              /\ \/ stack' = Pop
                 \/ stack = << >> /\ pc' = "returned" ]_vars
    /\ [](Returned /\ ~find_all /\ solution # None =>
              BoardToSudoku(board) = Unwrap(solution))

\* C6 witness: a single-solution search that has backtracked holds a
\* solution while two calls or more have yet to return.
C6_Witness ==
    /\ pc = "searching"
    /\ ~find_all
    /\ solutions # << >>
    /\ Len(stack) >= 2
    /\ stats.backtracks >= 1

\* C7: for a fully and validly filled start board find_one_solution returns
\* the start board itself with nodes_explored <= 81.
C7_SolvedBoardReturnedAtOnce ==
    (Returned /\ ~find_all /\ strategy.tag = "Default" /\ ValidBoard(StartBoard)) =>
        /\ solution = Some(GridOf(StartBoard))
        /\ solution = Some(sudoku)
        /\ stats.nodes_explored <= NumCells

\* C7 witness: find_one_solution returned on a fully and validly filled
\* board.
C7_Witness ==
    /\ Returned
    /\ ~find_all
    /\ strategy.tag = "Default"
    /\ ValidBoard(StartBoard)
    /\ solution # None

\* C8: a start board with a digit twice among the clues of a unit makes the
\* search return an empty Solution Set, never a board (stated for bijective
\* cell orders).
C8_DuplicateCluesYieldNoBoard ==
    (Returned /\ Bijective(cell_order) /\ ~DuplicateFree(StartBoard)) =>
        /\ solutions = << >>
        /\ solution = None

\* C9: with a seed supplied, two invocations of a randomized strategy on the
\* same puzzle with the same seed use the same cell order and end with the
\* same statistics.
C9_SeedReproducesRun ==
    (Returned /\ prev # None /\ seed # None
        /\ strategy.tag \in {"RowColRandom", "CellRandom"}) =>
        /\ cell_order = Unwrap(prev).cell_order
        /\ stats = Unwrap(prev).stats

\* C10: two invocations with the same start board and the same explicit
\* strategy (Default, CustomRowCol or CustomCell) use the same cell order and
\* return identical boards and identical statistics.
C10_RepeatIsDeterministic ==
    (Returned /\ prev # None
        /\ strategy.tag \in {"Default", "CustomRowCol", "CustomCell"}) =>
        /\ cell_order = Unwrap(prev).cell_order
        /\ solution = Unwrap(prev).solution
        /\ solutions = Unwrap(prev).solutions
        /\ stats = Unwrap(prev).stats

\* C10 witness: the second of two invocations with the same explicit cell
\* sequence returned a board after having backtracked.
C10_Witness ==
    /\ Returned
    /\ prev # None
    /\ strategy.tag = "CustomCell"
    /\ solution # None
    /\ stats.backtracks >= 1

\* Bit d of a mask word is set.
BitSet(mask, d) == (mask \div Pow2(d)) % 2 = 1

\* C11: for every cell (i, j) and every digit num in 1..9, is_safe on the
\* masks the digit loop works with (at every head of the loop) is true iff bit num is clear in rows[i],
\* in cols[j] and in subgrids[(i/3)*3 + j/3], all three (so it is false for
\* a digit set in the row's mask, at every column of that row); and a pass
\* of the digit loop in which is_safe was only called and rejected every
\* digit leaves the three mask arrays as they were.
C11_IsSafeIffBitClearInAllThree ==
    /\ []((Searching /\ Top.at = "loop") =>
            \A i, j \in Idx : \A num \in Digits :
                is_safe(rows, cols, subgrids, i, j, num)
                    <=> /\ ~BitSet(rows[i], num)
                        /\ ~BitSet(cols[j], num)
                        /\ ~BitSet(subgrids[SubgridIndex(i, j)], num))
    /\ [][(Searching /\ Top.at = "loop" /\ stack' = Pop) =>
            UNCHANGED << rows, cols, subgrids >>]_vars

\* C11 witness: the digit loop stands at an empty cell for which some digit
\* is rejected with its bit set in the row's mask, some digit is rejected on
\* account of the column's mask alone (its bit is clear in the row's and the
\* box's mask) and some other digit passes.
C11_Witness ==
    /\ Searching
    /\ Top.at = "loop"
    /\ LET i == At(cell_order, Top.current_idx)[1]
           j == At(cell_order, Top.current_idx)[2]
       IN  /\ \E d \in Digits :
                /\ BitSet(rows[i], d)
                /\ ~is_safe(rows, cols, subgrids, i, j, d)
           /\ \E d \in Digits :
                /\ ~BitSet(rows[i], d)
                /\ BitSet(cols[j], d)
                /\ ~BitSet(subgrids[SubgridIndex(i, j)], d)
                /\ ~is_safe(rows, cols, subgrids, i, j, d)
           /\ \E d \in Digits : is_safe(rows, cols, subgrids, i, j, d)

\* The array is a permutation of 0..8.
IsPermutation(arr) == Len(arr) = N /\ {arr[k] : k \in 1 .. Len(arr)} = Idx

\* The cell order was generated by the solver itself from valid inputs:
\* Default, the two random strategies, or CustomRowCol with two permutations.
SolverGenerated ==
    \/ strategy.tag \in {"Default", "RowColRandom", "CellRandom"}
    \/ /\ strategy.tag = "CustomRowCol"
       /\ IsPermutation(strategy.row_order)
       /\ IsPermutation(strategy.col_order)

\* C12: every cell order the solver generates itself (Default, RowColRandom
\* and CellRandom under any outcome of their shuffles, CustomRowCol with two
\* permutations of 0..8) has exactly 81 entries, repeats no coordinate and
\* contains every (row, column) of 0..8 x 0..8.
C12_GeneratedOrderIsBijection ==
    (pc # "idle" /\ SolverGenerated) =>
        /\ Len(cell_order) = NumCells
        /\ Cardinality({cell_order[k] : k \in 1 .. Len(cell_order)}) = NumCells
        /\ \A x \in Cell : \E k \in 1 .. Len(cell_order) : cell_order[k] = x

\* C12 witness: a search ran to its return on an order generated from two
\* permutations that is not the row-major order.
C12_Witness ==
    /\ Returned
    /\ strategy.tag = "CustomRowCol"
    /\ SolverGenerated
    /\ cell_order # RowMajor
    /\ stats.nodes_explored >= 1

\* C13: single-solution mode returns zero or one board and solutions_found
\* is the number of boards returned: 1 exactly when a board is returned and
\* 0 otherwise, also for a puzzle with several valid completions; in
\* all-solutions mode solutions_found is the length of the returned list.
C13_SolutionsFoundCountsReturned ==
    Returned =>
        IF find_all
        THEN stats.solutions_found = Len(solutions)
        ELSE /\ Len(solution) \in {0, 1}
             /\ stats.solutions_found = Len(solution)
             /\ stats.solutions_found = 1 <=> solution # None

\* C13 witness: a single-solution search returned one board, counted once,
\* for a start board with at least two valid completions.
C13_Witness ==
    /\ Returned
    /\ ~find_all
    /\ Cardinality(Completions(StartBoard)) >= 2
    /\ solution # None
    /\ stats.solutions_found = 1

\* C14: on the same start board and the same cell order, nodes_explored of
\* the single-solution search is never larger than nodes_explored of the
\* all-solutions search, and it is strictly smaller when the start board is
\* duplicate-free with at least two valid completions and the order is
\* bijective.
C14_EarlyStopExploresLess ==
    (Returned /\ find_all /\ prev # None) =>
        /\ Unwrap(prev).stats.nodes_explored <= stats.nodes_explored
        /\ (LegalInputs /\ Cardinality(Completions(StartBoard)) >= 2) =>
              Unwrap(prev).stats.nodes_explored < stats.nodes_explored

\* C14 witness: both searches returned on a duplicate-free board with two
\* valid completions under a bijective order; the single-solution search
\* returned a board and the all-solutions search returned two.
C14_Witness ==
    /\ Returned
    /\ find_all
    /\ prev # None
    /\ LegalInputs
    /\ Cardinality(Completions(StartBoard)) >= 2
    /\ Unwrap(prev).solution # None
    /\ Len(solutions) >= 2

\* C15: every search on a bijective cell order terminates, in both modes and
\* for every start board: once started it reaches the return to its caller;
\* and the position index strictly increases from each active call to the
\* call it made and never exceeds 81.
C15_SearchTerminates ==
    /\ [](\A k \in 1 .. Len(stack) :
            /\ stack[k].cell_idx <= NumCells
            /\ k >= 2 => stack[k].cell_idx > stack[k - 1].cell_idx)
    /\ ((pc = "searching" /\ Bijective(cell_order)) ~> (pc = "returned"))

\* C15 witness: an all-solutions search on a bijective order returned after
\* placements and undos, having been four calls deep.
C15_Witness ==
    /\ Returned
    /\ find_all
    /\ Bijective(cell_order)
    /\ stats.backtracks >= 2
    /\ stats.max_recursion_depth >= 3

\* C16: set_cell(row, col, value) on the puzzle, for every row and column in
\* 0..10 and every value in 0..10: with row >= 9, col >= 9, value < 1 or
\* value > 9 it is an error and the grid is as before; otherwise it is Ok,
\* the cell's candidate set is exactly {value} and every other cell is as
\* before.
C16_SetCellRejectsOutOfRange ==
    (pc \in {"returned", "panicked"}) =>
        \A row, col \in 0 .. (N + 1) : \A value \in 0 .. (N + 1) :
            LET after == set_cell(sudoku, row, col, value)
            IN  IF row >= 9 \/ col >= 9 \/ value < 1 \/ value > 9
                THEN /\ ~set_cell_ok(row, col, value)
                     /\ after = sudoku
                ELSE /\ set_cell_ok(row, col, value)
                     /\ after[row][col] = {value}
                     /\ \A r \in Idx \ {row} : after[r] = sudoku[r]
                     /\ \A c \in Idx \ {col} : after[row][c] = sudoku[row][c]

\* C16 witness: the copy of a completed board was made with set_cell on
\* every cell (all Ok) and gave, for a cell the puzzle left open, the
\* candidate set of exactly the placed digit.
C16_Witness ==
    /\ Returned
    /\ solutions # << >>
    /\ \E x \in Cell :
          /\ sudoku[x[1]][x[2]] = Digits
          /\ solutions[1][x[1]][x[2]] = {board[x[1]][x[2]]}

\* The cells of row i, of column j and of box b.
RowCells(i) == {<<i, c>> : c \in Idx}

ColCells(j) == {<<r, j>> : r \in Idx}

BoxCells(b) ==
    {<<(b \div 3) * 3 + dr, (b % 3) * 3 + dc>> : dr \in 0 .. 2, dc \in 0 .. 2}

\* Bit d of the mask is set iff exactly one cell of the unit holds d.
MaskMatches(mask, unit) ==
    \A d \in Digits :
        BitSet(mask, d) <=>
            Cardinality({x \in unit : board[x[1]][x[2]] = d}) = 1

\* C17: for a duplicate-free start board, at every decision point of the
\* search (entry of a call, after a placement, after an undo) and for every
\* row, column and box, bit d of the unit's mask is set iff exactly one
\* filled cell of the unit holds d, for every d in 1..9.
C17_MasksMatchBoard ==
    (pc = "searching" /\ DuplicateFree(StartBoard)) =>
        \A u \in Idx :
            /\ MaskMatches(rows[u], RowCells(u))
            /\ MaskMatches(cols[u], ColCells(u))
            /\ MaskMatches(subgrids[u], BoxCells(u))

\* C17 witness: a search on a duplicate-free board stands at the head of a
\* digit loop with two of its own placements on the board, after an undo.
C17_Witness ==
    /\ Searching
    /\ DuplicateFree(StartBoard)
    /\ Top.at = "loop"
    /\ Top.depth >= 2
    /\ stats.backtracks >= 1

\* This step is the return of a decision node at which none of the digits
\* 1..9 passes is_safe.
DeadEndReturns ==
    /\ stack # << >>
    /\ Top.at = "loop"
    /\ stack' = Pop
    /\ SafeFrom(1, At(cell_order, Top.current_idx)[1],
                   At(cell_order, Top.current_idx)[2]) = {}

\* C18: a search starts with leaves = 0 and an empty Solution Set, and every
\* step of it adds to leaves exactly the number of solutions it appends plus
\* one if it is the return of a decision node at which no digit 1..9 passed
\* is_safe; so at the return leaves is the number of solutions appended plus
\* the number of such nodes, and the return of a node at which some digit
\* was placed adds nothing, whatever became of its subtrees.
C18_LeavesAreSolutionsAndDeadEnds ==
    /\ [][(pc # "searching" /\ pc' = "searching") =>
            (stats'.leaves = 0 /\ solutions' = << >>)]_vars
    /\ [][(pc = "searching") =>
            stats'.leaves = stats.leaves
                + (Len(solutions') - Len(solutions))
                + (IF DeadEndReturns THEN 1 ELSE 0)]_vars

\* C18 witness: a search returned without a solution; it had placed digits
\* and undone them, counted dead ends as leaves, and has more decision nodes
\* than leaves (a node whose subtrees all failed is no leaf).
C18_Witness ==
    /\ Returned
    /\ solutions = << >>
    /\ stats.backtracks >= 1
    /\ stats.leaves >= 1
    /\ stats.leaves < stats.nodes_explored

\* The number of digits the search itself has on the board.
Placed ==
    Cardinality({x \in Cell : board[x[1]][x[2]] # StartBoard[x[1]][x[2]]})

\* C19: a call that is scanning or at its digit loop has as depth the number
\* of digits the search itself has placed (clue cells are skipped without a
\* node and add no depth), and the depth indexes tree_width_by_level within
\* 0..80; for a bijective order and a start board with k >= 1 empty cells
\* max_recursion_depth <= k - 1 <= 80, no level from k on has a node, and at
\* the return tree_width_by_level[0] == 1.
C19_DepthCountsPlacedDigits ==
    /\ (Searching /\ Top.at \in {"entry", "loop"}) =>
          /\ Top.depth = Placed
          /\ Top.depth \in Depths
    /\ (pc \in {"searching", "returned"} /\ Bijective(cell_order)
           /\ EmptyCells(StartBoard) # {}) =>
          LET k == Cardinality(EmptyCells(StartBoard))
          IN  /\ stats.max_recursion_depth <= k - 1
              /\ k - 1 <= NumCells - 1
              /\ \A d \in Depths :
                    d >= k => stats.tree_width_by_level[d] = 0
              /\ Returned => stats.tree_width_by_level[0] = 1

\* C19 witness: a search returned on a bijective order whose first cell is a
\* clue, for a start board with three empty cells; it went as deep as two.
C19_Witness ==
    /\ Returned
    /\ Bijective(cell_order)
    /\ StartBoard[cell_order[1][1]][cell_order[1][2]] # 0
    /\ Cardinality(EmptyCells(StartBoard)) = 3
    /\ stats.max_recursion_depth = 2
    /\ stats.tree_width_by_level[0] = 1

\* The active calls that have a placement of their own on the board (they
\* wait for, or have just got back, the recursive call they made).
Pending == {k \in 1 .. Len(stack) : stack[k].at = "called"}

PendingCell(k) == At(cell_order, stack[k].current_idx)

\* The board at the entry of the innermost call: the clues and the pending
\* placements of the calls around it.
PathBoard ==
    [r \in Idx |-> [c \in Idx |->
        IF \E k \in Pending : PendingCell(k) = <<r, c>>
        THEN stack[CHOOSE k \in Pending : PendingCell(k) = <<r, c>>].num
        ELSE StartBoard[r][c]]]

\* Cell x lies in row u, column u or box u.
InUnit(kind, u, x) ==
    CASE kind = "row" -> x[1] = u
      [] kind = "col" -> x[2] = u
      [] kind = "box" -> SubgridIndex(x[1], x[2]) = u

\* The sum of 1 << num over the pending placements among the first k active
\* calls that lie in the unit.
RECURSIVE PendingBits(_, _, _)
PendingBits(kind, u, k) ==
    IF k = 0 THEN 0
    ELSE PendingBits(kind, u, k - 1)
            + (IF k \in Pending /\ InUnit(kind, u, PendingCell(k))
               THEN Shl1(stack[k].num) ELSE 0)

\* C20: as long as the early stop has not fired (all-solutions mode, or no
\* solution found so far), the board and the three mask arrays are the
\* initial clue-only ones plus the pending placements of the active calls;
\* so every call leaves them at its return as they were at its entry, and
\* after an all-solutions search, or a single-solution search that found
\* nothing, they equal the initial board and masks.  This holds for every
\* start board, with or without duplicate clues.
C20_UndoRestoresState ==
    (pc # "idle" /\ ~EarlyStop) =>
        /\ board = PathBoard
        /\ \A u \in Idx :
              /\ rows[u] = Initialized[sudoku].rows[u]
                              + PendingBits("row", u, Len(stack))
              /\ cols[u] = Initialized[sudoku].cols[u]
                              + PendingBits("col", u, Len(stack))
              /\ subgrids[u] = Initialized[sudoku].subgrids[u]
                              + PendingBits("box", u, Len(stack))
        /\ Returned =>
              /\ board = Initialized[sudoku].board
              /\ rows = Initialized[sudoku].rows
              /\ cols = Initialized[sudoku].cols
              /\ subgrids = Initialized[sudoku].subgrids

\* C20 witness: an all-solutions search on a start board with duplicate
\* clues returned after placements and undos.
C20_Witness ==
    /\ Returned
    /\ find_all
    /\ ~DuplicateFree(StartBoard)
    /\ stats.backtracks >= 2
    /\ board = StartBoard

\* C21: the order generate_cell_order_from_row_col returns has 81 cells, the
\* one at index 9*a + b being (row_order[a], col_order[b]): nine blocks of
\* nine cells, each block one row and every block the same column sequence
\* (checked on the order of every search with a strategy that generates it
\* so); for CustomRowCol the rows and columns are the caller's arrays, and
\* with the identity arrays of Default it is (0,0), (0,1), .., (8,8).
C21_OrderIsRowBlocks ==
    (pc # "idle" /\ strategy.tag \in {"Default", "RowColRandom", "CustomRowCol"}) =>
        /\ Len(cell_order) = NumCells
        /\ \A a, b \in Idx :
              /\ At(cell_order, 9 * a + b)[1] = At(cell_order, 9 * a)[1]
              /\ At(cell_order, 9 * a + b)[2] = At(cell_order, b)[2]
        /\ strategy.tag = "CustomRowCol" =>
              \A a, b \in Idx :
                  At(cell_order, 9 * a + b)
                      = <<At(strategy.row_order, a), At(strategy.col_order, b)>>
        /\ strategy.tag = "Default" =>
              \A a, b \in Idx : At(cell_order, 9 * a + b) = <<a, b>>

\* C21 witness: a search ran on the order generated from the caller's
\* reversed row array and identity column array, which starts (8,0), (8,1).
C21_Witness ==
    /\ Returned
    /\ strategy.tag = "CustomRowCol"
    /\ strategy.row_order = Reverse(Identity9)
    /\ At(cell_order, 0) = <<8, 0>>
    /\ At(cell_order, 1) = <<8, 1>>
    /\ stats.nodes_explored >= 1

\* The caller's cell sequence has 81 entries but is no bijection, and some
\* empty cell of the start board does not occur in it.
Malformed ==
    /\ strategy.tag = "CustomCell"
    /\ Len(cell_order) = NumCells
    /\ ~Bijective(cell_order)
    /\ \E x \in EmptyCells(StartBoard) :
          \A k \in 1 .. Len(cell_order) : cell_order[k] # x

\* C22: a CustomCell order of 81 entries that is no bijection and misses an
\* empty cell of the start board is searched as given, without a check; no
\* board is ever appended or returned, and whenever a call's scan reaches
\* position 81 the copy of the board fails and the call aborts.
C22_MalformedOrderNeverReturnsBoard ==
    /\ []((pc # "idle" /\ Malformed) =>
            /\ cell_order = strategy.cell_order
            /\ solutions = << >>
            /\ solution = None
            /\ stats.solutions_found = 0)
    /\ [][(Malformed /\ Searching /\ Top.at = "entry"
             /\ NextEmpty(board, cell_order, Top.cell_idx) = NumCells) =>
            pc' = "panicked"]_vars

\* C22 witness: the search on such an order explored nodes, placed a digit
\* and aborted in the copy with the missing cell still empty.
C22_Witness ==
    /\ pc = "panicked"
    /\ Malformed
    /\ stats.nodes_explored >= 1
    /\ Placed >= 1
    /\ \E x \in EmptyCells(board) :
          \A k \in 1 .. Len(cell_order) : cell_order[k] # x

\* Bit 0 of the mask word is clear (the word is even) and bits 10..15 are
\* clear (the 16-bit word is below 2^10).
OnlyDigitBits(mask) ==
    /\ mask % 2 = 0
    /\ mask >= 0
    /\ mask < MaskModulus
    /\ mask \div 1024 = 0

\* C23: in every state of the search every row, column and box mask has bit
\* 0 clear and bits 10..15 clear (only bits 1..9 are set or cleared), for
\* every start board of the model, whose clues are in 1..9.
C23_OnlyBitsOneToNine ==
    (pc # "idle") =>
        \A u \in Idx :
            /\ OnlyDigitBits(rows[u])
            /\ OnlyDigitBits(cols[u])
            /\ OnlyDigitBits(subgrids[u])

\* C23 witness: the search has set mask bits with a placement that is on the
\* board and cleared bits with an undo; a row mask has all of bits 1..9 set.
C23_Witness ==
    /\ Searching
    /\ Top.at = "called"
    /\ stats.backtracks >= 1
    /\ \E u \in Idx : rows[u] = 1022

\* The clue cells of the start board.
ClueCells == Cell \ EmptyCells(StartBoard)

\* C24: in every state of the search every cell that was filled in the
\* start board holds its start value, and every board appended or returned
\* has exactly the start value on every clue cell; for every cell order of
\* the model, bijective or not.
C24_CluesNeverChange ==
    (pc # "idle") =>
        \A x \in ClueCells :
            /\ board[x[1]][x[2]] = StartBoard[x[1]][x[2]]
            /\ \A k \in 1 .. Len(solutions) :
                  solutions[k][x[1]][x[2]] = {StartBoard[x[1]][x[2]]}
            /\ solution # None =>
                  Unwrap(solution)[x[1]][x[2]] = {StartBoard[x[1]][x[2]]}

\* C24 witness: a search on the caller's sequence with a repeated cell
\* appended a board and returned after placements and undos.
C24_Witness ==
    /\ Returned
    /\ strategy.tag = "CustomCell"
    /\ ~Bijective(cell_order)
    /\ solutions # << >>
    /\ stats.backtracks >= 1

\* C25: when the search returns, backtracks plus the number of digits the
\* search placed that are still on the scratch board equals nodes_explored
\* plus the number of appended solutions minus 1; an exhaustive search
\* (all-solutions mode, or single-solution mode that found nothing) leaves no
\* placed digit and ends with backtracks == nodes_explored + solutions - 1,
\* and a single-solution search that found a board on a start with k empty
\* cells ends with backtracks == nodes_explored - k.
C25_BacktrackAccounting ==
    Returned =>
        /\ stats.backtracks + Placed
              = stats.nodes_explored + Len(solutions) - 1
        /\ (find_all \/ solutions = << >>) =>
              /\ Placed = 0
              /\ stats.backtracks
                    = stats.nodes_explored + Len(solutions) - 1
        /\ (~find_all /\ solutions # << >>) =>
              stats.backtracks
                  = stats.nodes_explored - Cardinality(EmptyCells(StartBoard))

\* C25 witness: a single-solution search returned a board for a start with
\* at least two empty cells after undoing a placement.
C25_Witness ==
    /\ Returned
    /\ ~find_all
    /\ solution # None
    /\ Cardinality(EmptyCells(StartBoard)) >= 2
    /\ stats.backtracks >= 1

\* SolverStats::leaf_ratio as the fraction << numerator, denominator >>
\* (0.0 is << 0, 1 >>).
leaf_ratio(st) ==
    IF st.nodes_explored > 0
    THEN << st.leaves, st.nodes_explored >>
    ELSE << 0, 1 >>

\* C26: for a duplicate-free start board with at least one empty cell and a
\* bijective cell order, leaves <= nodes_explored when the search returns, in
\* both modes, so the leaf ratio is at most 1.
C26_LeavesAtMostNodes ==
    (Returned /\ LegalInputs /\ EmptyCells(StartBoard) # {}) =>
        /\ stats.leaves <= stats.nodes_explored
        /\ leaf_ratio(stats)[1] <= leaf_ratio(stats)[2]

\* C26 witness: a search on legal inputs with an empty cell returned with a
\* solution leaf and a dead-end leaf.
C26_Witness ==
    /\ Returned
    /\ LegalInputs
    /\ EmptyCells(StartBoard) # {}
    /\ solutions # << >>
    /\ stats.leaves > Len(solutions)

\* The board a completely filled Sudoku holds.
BoardOf(grid) ==
    [r \in Idx |-> [c \in Idx |-> CHOOSE v \in grid[r][c] : TRUE]]

\* The positions of an order that hold an initially empty cell.
EmptyPositions(order) ==
    {k \in 0 .. (Len(order) - 1) :
        StartBoard[At(order, k)[1]][At(order, k)[2]] = 0}

\* Board a is at most board b in the lexicographic order of the digits of
\* the initially empty cells read along the order.
LexLeq(a, b, order) ==
    LET differ == {k \in EmptyPositions(order) :
                     a[At(order, k)[1]][At(order, k)[2]]
                         # b[At(order, k)[1]][At(order, k)[2]]}
    IN  \/ differ = {}
        \/ LET first == CHOOSE k \in differ : \A other \in differ : k <= other
           IN  a[At(order, first)[1]][At(order, first)[2]]
                   < b[At(order, first)[1]][At(order, first)[2]]

C28_SingleIsFirstOfAll ==
    (Returned /\ find_all /\ prev # None) =>
        /\ (Unwrap(prev).solution = None) <=> (solutions = << >>)
        /\ solutions # << >> => Unwrap(prev).solution = Some(solutions[1])
        /\ Unwrap(prev).cell_order = cell_order

\* C28 witness: both searches returned; the all-solutions list has a second
\* board that differs from the board single-solution mode returned.
C28_Witness ==
    /\ Returned
    /\ find_all
    /\ prev # None
    /\ Len(solutions) >= 2
    /\ Unwrap(prev).solution = Some(solutions[1])
    /\ Unwrap(prev).solution # Some(solutions[2])

\* SolverStats::branching_levels_count: the number of levels with a node.
branching_levels_count(st) ==
    Cardinality({d \in Depths : st.tree_width_by_level[d] > 0})

\* C29: when the search returns with nodes_explored > 0, the levels with a
\* node are exactly the depths 0..max_recursion_depth, so
\* branching_levels_count == max_recursion_depth + 1; level 0 has one node,
\* and a level has at most 9 times the nodes of the level above it.
C29_WidthHistogramShape ==
    (Returned /\ stats.nodes_explored > 0) =>
        /\ {d \in Depths : stats.tree_width_by_level[d] > 0}
              = 0 .. stats.max_recursion_depth
        /\ branching_levels_count(stats) = stats.max_recursion_depth + 1
        /\ stats.tree_width_by_level[0] = 1
        /\ \A d \in Depths \ {0} :
              stats.tree_width_by_level[d]
                  <= 9 * stats.tree_width_by_level[d - 1]

\* C29 witness: a search returned with nodes on at least three levels and a
\* level of more than one node.
C29_Witness ==
    /\ Returned
    /\ stats.max_recursion_depth >= 2
    /\ branching_levels_count(stats) >= 3
    /\ \E d \in Depths : stats.tree_width_by_level[d] >= 2

LegacyReturned == pc = "legacy_returned"

\* C30: the legacy row-major solver and the cell-order solver run with
\* SearchStrategy::Default explore the same search tree: for every start
\* board and both modes they return the same boards in the same order and
\* end with equal nodes_explored, backtracks, max_recursion_depth and
\* tree_width_by_level; when the legacy scan reaches i == 9 the board holds
\* no empty cell, so its copy succeeds.
C30_LegacyExploresSameTree ==
    /\ LegacyReturned =>
          /\ solutions = Unwrap(prev).solutions
          /\ solution = Unwrap(prev).solution
          /\ stats.solutions_found = Unwrap(prev).stats.solutions_found
          /\ stats.nodes_explored = Unwrap(prev).stats.nodes_explored
          /\ stats.backtracks = Unwrap(prev).stats.backtracks
          /\ stats.max_recursion_depth = Unwrap(prev).stats.max_recursion_depth
          /\ stats.tree_width_by_level = Unwrap(prev).stats.tree_width_by_level
    /\ (LegacySearching /\ Top.at = "entry"
           /\ LegacyNextEmpty(board, Top.i, Top.j)[1] = N) =>
          CopySucceeds(board)

\* C30 witness: both solvers returned from an all-solutions search with
\* several boards, nodes below the root and undone placements.
C30_Witness ==
    /\ LegacyReturned
    /\ find_all
    /\ Len(solutions) >= 2
    /\ stats.max_recursion_depth >= 2
    /\ stats.backtracks >= 2

====
